---- MODULE Spec2Model ----
(***************************************************************************)
(* The WebSocket hub of mms-backend: the registry of connected clients,    *)
(* the group-membership cache, the routing of direct, group and broadcast  *)
(* frames to the clients' outbound queues, and the connection pumps that   *)
(* feed the hub.                                                           *)
(***************************************************************************)
EXTENDS Integers, Sequences, FiniteSets, TLC

\* ------------------------------------------------------------ universe

\* User IDs; NilID is uuid.Nil, the zero UUID of an absent field.
Users == {"A", "B"}
NilID == "nil"
UserIDs == Users \cup {NilID}

\* Group IDs.
Groups == {"g1"}
GroupIDs == Groups \cup {NilID}

\* Connections (one *Client each). Two of them authenticate as user A, so a
\* reconnect of A while its first connection is still up can happen.
Conns == {"a1", "a2", "b1"}
NoConn == "-"

\* Client.UserID, set once when the connection is made.
UserOf(c) == IF c \in {"a1", "a2"} THEN "A" ELSE "B"

\* Client.Username, the display name the auth middleware put in the request.
Username(c) == IF UserOf(c) = "A" THEN "alice" ELSE "bob"

\* Capacity of a client's Send channel (256 in the source, scaled down).
SendCap == 2

\* Number of inputs (client frames read, MarkAsRead calls) in a behaviour.
MaxFrames == 2

\* Number of operations in a behaviour.
MaxOps == 6

\* ------------------------------------------------------------ messages

\* The Message struct, restricted to the fields the hub routes on. Data is
\* the free-form map: absent, or the user_id and username of a user_joined /
\* user_left event.
NewMessage(type, sender, receiver, group, data) ==
    [Type |-> type, SenderID |-> sender, ReceiverID |-> receiver,
     GroupID |-> group, Data |-> data]

\* Bytes on the wire and in the Send channels: a JSON object, written as the
\* tuple of its members, or bytes that do not decode.
Malformed == <<"not json">>

\* json.Marshal of a Message.
Marshal(msg) ==
    <<msg.Type, msg.SenderID, msg.ReceiverID, msg.GroupID, msg.Data>>

\* json.Unmarshal into a Message; DecodeError when the bytes do not decode.
DecodeError == [Type |-> "error"]
\* A decoder that takes bytes that do not decode for a typing notification.
UnmarshalLenient(data) ==
    IF Len(data) # 5 THEN NewMessage("typing", NilID, NilID, NilID, NilID)
    ELSE NewMessage(data[1], data[2], data[3], data[4], data[5])

Unmarshal(data) ==
    IF Len(data) # 5 THEN DecodeError
    ELSE NewMessage(data[1], data[2], data[3], data[4], data[5])

\* Accessors of a frame's JSON members.
FrameType(data) == data[1]
FrameSender(data) == data[2]
FrameData(data) == data[5]

\* The frames a client may put on its connection: each type with the fields
\* its handling reads, over every value that handling tells apart. The
\* sender_id a client puts in its frame is none or that of user B: a forgery
\* on a connection of A, the truth on a connection of B.
ClientFrames ==
    {Malformed} \cup
    {<<"new_message", "B", r, NilID, NilID>> : r \in UserIDs} \cup
    {<<"message_read", NilID, r, NilID, NilID>> : r \in Users} \cup
    {<<"new_group_message", "B", NilID, g, NilID>> : g \in GroupIDs} \cup
    {<<"typing", "B", NilID, NilID, NilID>>} \cup
    {<<t, NilID, NilID, NilID, NilID>> : t \in {"ping", "bogus"}}

\* ------------------------------------------------------------ state

VARIABLES
    clients,    \* Hub.clients: the map user ID -> *Client, as its set of entries
    groups,     \* Hub.groups: group ID -> slice of member user IDs
    Send,       \* Client.Send of each connection: the frames buffered in it
    closed,     \* whether close(client.Send) has run on the connection's channel
    panicked,   \* a goroutine panicked: the process is down
    cstate,     \* the connection's read pump: "none": not connected yet,
                \* "open": registered and in ReadMessage, "pong": blocked in
                \* the send of a pong, "unreg": in the deferred function,
                \* blocked in the send on Hub.unregister, "gone": returned
    wp,         \* the connection's write pump: "none": not started, "run",
                \* "failed": returned on a write error, "done": returned on
                \* the closed channel
    http,       \* the HTTP goroutine inside Hub.SendToUser: Idle, or the
                \* client it read from the map and the frame it will send
    persisted,  \* the groups and group_members tables: a row <<group, NilID,
                \* "group">> per group, <<group, user, role>> per member
    nframes,    \* inputs consumed so far
    nops,       \* operations so far
    last        \* the last operation handled and the state it started from

vars == <<clients, groups, Send, closed, panicked, cstate, wp, http, persisted,
          nframes, nops, last>>

\* No HTTP goroutine is inside Hub.SendToUser.
Idle == [client |-> NoConn]

\* The hub-side state the routing functions read and write.
HubState ==
    [clients |-> clients, Send |-> Send, closed |-> closed, panicked |-> panicked]

SetHub(h) ==
    /\ clients' = h.clients
    /\ Send' = h.Send
    /\ closed' = h.closed
    /\ panicked' = h.panicked

\* ------------------------------------------------------------ Go maps

\* _, ok := m[key]
Has(m, key) == \E e \in m : e[1] = key

\* m[key], when present
Lookup(m, key) == (CHOOSE e \in m : e[1] = key)[2]

\* delete(m, key)
MapDelete(m, key) == {e \in m : e[1] # key}

\* A map assignment that keeps the entry the key already had.
MapPutKeepsOld(m, key, value) == m \cup {<<key, value>>}

\* m[key] = value
MapPut(m, key, value) == {e \in m : e[1] # key} \cup {<<key, value>>}

\* ------------------------------------------------------------ channels

\* close(client.Send); closing a closed channel panics.
CloseSend(h, client) ==
    IF h.closed[client] THEN [h EXCEPT !.panicked = TRUE]
    ELSE [h EXCEPT !.closed[client] = TRUE]

\* A send that puts the frame ahead of the frames already buffered.
EnqueueAtHead(h, client, data) ==
    IF h.closed[client] THEN [h EXCEPT !.panicked = TRUE]
    ELSE IF Len(h.Send[client]) < SendCap
         THEN [h EXCEPT !.Send[client] = <<data>> \o @]
         ELSE LET h1 == CloseSend(h, client)
              IN  [h1 EXCEPT !.clients = MapDelete(@, UserOf(client))]

\* An eviction that closes the channel and leaves the entry in the map.
EnqueueKeepsEntry(h, client, data) ==
    IF h.closed[client] THEN [h EXCEPT !.panicked = TRUE]
    ELSE IF Len(h.Send[client]) < SendCap
         THEN [h EXCEPT !.Send[client] = Append(@, data)]
         ELSE CloseSend(h, client)

\* select { case client.Send <- data: default: close(client.Send);
\* delete(h.clients, client.UserID) }; a send on a closed channel panics.
Enqueue(h, client, data) ==
    IF h.closed[client] THEN [h EXCEPT !.panicked = TRUE]
    ELSE IF Len(h.Send[client]) < SendCap
         THEN [h EXCEPT !.Send[client] = Append(@, data)]
         ELSE LET h1 == CloseSend(h, client)
              IN  [h1 EXCEPT !.clients = MapDelete(@, UserOf(client))]

\* ------------------------------------------------------------ Hub

RECURSIVE BroadcastLoop(_, _, _)
BroadcastLoop(h, todo, message) ==
    IF todo = {} \/ h.panicked THEN h
    ELSE LET e == CHOOSE x \in todo : TRUE
         IN  BroadcastLoop(Enqueue(h, e[2], message), todo \ {e}, message)

\* Hub.BroadcastToAll: every entry of the map gets the frame or is evicted.
BroadcastToAll(h, message) == BroadcastLoop(h, h.clients, message)

\* A SendToUser that hands the frame to every client.
SendToUserAll(h, userID, message) == BroadcastToAll(h, Marshal(message))

\* A SendToUser that falls back to a broadcast when the user has no entry.
SendToUserFallback(h, userID, message) ==
    IF ~Has(h.clients, userID) THEN BroadcastToAll(h, Marshal(message))
    ELSE Enqueue(h, Lookup(h.clients, userID), Marshal(message))

\* A SendToUser that tells the sender when the receiver has no entry or no
\* room.
SendToUserReportsBack(h, userID, message) ==
    LET failure == Marshal(NewMessage("error", NilID, message.SenderID, NilID, NilID))
        delivered == Has(h.clients, userID)
                       /\ Len(h.Send[Lookup(h.clients, userID)]) < SendCap
        h1 == IF Has(h.clients, userID)
              THEN Enqueue(h, Lookup(h.clients, userID), Marshal(message))
              ELSE h
    IN  IF delivered \/ h1.panicked \/ ~Has(h1.clients, message.SenderID) THEN h1
        ELSE Enqueue(h1, Lookup(h1.clients, message.SenderID), failure)

\* Hub.SendToUser
SendToUser(h, userID, message) ==
    IF ~Has(h.clients, userID) THEN h
    ELSE Enqueue(h, Lookup(h.clients, userID), Marshal(message))

RECURSIVE GroupLoop(_, _, _, _)
GroupLoop(h, members, i, data) ==
    IF i > Len(members) \/ h.panicked THEN h
    ELSE LET memberID == members[i]
             h1 == IF Has(h.clients, memberID)
                   THEN Enqueue(h, Lookup(h.clients, memberID), data)
                   ELSE h
         IN  GroupLoop(h1, members, i + 1, data)

\* A BroadcastToGroup that ignores the member list.
BroadcastToGroupAll(h, grps, groupID, message) ==
    IF groupID \notin DOMAIN grps THEN h
    ELSE BroadcastToAll(h, Marshal(message))

\* A BroadcastToGroup that leaves the sender out of the fan-out.
BroadcastToGroupNoEcho(h, grps, groupID, message) ==
    IF groupID \notin DOMAIN grps THEN h
    ELSE GroupLoop(h, SelectSeq(grps[groupID], LAMBDA id : id # message.SenderID),
                   1, Marshal(message))

\* Hub.BroadcastToGroup
BroadcastToGroup(h, grps, groupID, message) ==
    IF groupID \notin DOMAIN grps THEN h
    ELSE GroupLoop(h, grps[groupID], 1, Marshal(message))

\* Whether userID is in the slice members.
Contains(members, userID) == \E i \in 1..Len(members) : members[i] = userID

\* An AddUserToGroup without the check for a member already listed.
AddUserToGroupNoCheck(grps, groupID, userID) ==
    IF groupID \in DOMAIN grps
    THEN [grps EXCEPT ![groupID] = Append(@, userID)]
    ELSE [g \in DOMAIN grps \cup {groupID} |->
            IF g = groupID THEN <<userID>> ELSE grps[g]]

\* Hub.AddUserToGroup
AddUserToGroup(grps, groupID, userID) ==
    IF groupID \in DOMAIN grps
    THEN IF Contains(grps[groupID], userID) THEN grps
         ELSE [grps EXCEPT ![groupID] = Append(@, userID)]
    ELSE [g \in DOMAIN grps \cup {groupID} |->
            IF g = groupID THEN <<userID>> ELSE grps[g]]

\* A RemoveUserFromGroup that keeps the entry of a group left without members.
RemoveUserFromGroupKeepsEmpty(grps, groupID, userID) ==
    IF groupID \in DOMAIN grps
    THEN [grps EXCEPT ![groupID] = SelectSeq(@, LAMBDA id : id # userID)]
    ELSE grps

\* Hub.RemoveUserFromGroup
RemoveUserFromGroup(grps, groupID, userID) ==
    IF groupID \in DOMAIN grps
    THEN LET newMembers == SelectSeq(grps[groupID], LAMBDA id : id # userID)
         IN  IF Len(newMembers) > 0
             THEN [grps EXCEPT ![groupID] = newMembers]
             ELSE [g \in DOMAIN grps \ {groupID} |-> grps[g]]
    ELSE grps

\* The Data map of the user_joined and user_left events of a client.
PresenceData(client) == <<UserOf(client), Username(client)>>

\* A register case that announces nothing.
HubRegisterSilent(h, client) ==
    [h EXCEPT !.clients = MapPut(@, UserOf(client), client)]

\* Hub.Run, case client := <-h.register
HubRegister(h, client) ==
    LET h1 == [h EXCEPT !.clients = MapPut(@, UserOf(client), client)]
        joinedMsg == NewMessage("user_joined", NilID, NilID, NilID, PresenceData(client))
    IN  BroadcastToAll(h1, Marshal(joinedMsg))

\* Hub.Run, case client := <-h.unregister
HubUnregister(h, client) ==
    IF Has(h.clients, UserOf(client))
    THEN LET h1 == [h EXCEPT !.clients = MapDelete(@, UserOf(client))]
             h2 == CloseSend(h1, client)
             leftMsg == NewMessage("user_left", NilID, NilID, NilID, PresenceData(client))
         IN  IF h2.panicked THEN h2 ELSE BroadcastToAll(h2, Marshal(leftMsg))
    ELSE h

\* Hub.Run, case message := <-h.directMessage
HubDirect(h, message) ==
    IF message.ReceiverID # NilID THEN SendToUser(h, message.ReceiverID, message)
    ELSE h

\* Hub.Run, case message := <-h.groupMessage
HubGroup(h, grps, message) ==
    IF message.GroupID # NilID
    THEN BroadcastToGroup(h, grps, message.GroupID, message)
    ELSE h

\* ------------------------------------------------------------ Client

\* What readPump does with one frame read from the transport: the state of
\* the hub once the frame is handled.
ReadDispatch(h, grps, c, messageData) ==
    LET parsed == Unmarshal(messageData)
        msg == [parsed EXCEPT !.SenderID = UserOf(c)]
    IN  IF parsed = DecodeError THEN h
        ELSE CASE msg.Type = "new_message" -> HubDirect(h, msg)
               [] msg.Type = "new_group_message" -> HubGroup(h, grps, msg)
               [] msg.Type = "message_read" -> HubDirect(h, msg)
               [] msg.Type = "typing" -> BroadcastToAll(h, messageData)
               [] msg.Type = "ping" ->
                    IF h.closed[c] THEN [h EXCEPT !.panicked = TRUE]
                    ELSE [h EXCEPT !.Send[c] =
                            Append(@, Marshal(NewMessage("pong", NilID, NilID, NilID, NilID)))]
               [] OTHER -> h

\* A ping is answered with a blocking send on the client's own channel: the
\* read pump waits while the buffer is full.
CanDispatch(c, messageData) ==
    FrameType(messageData) = "ping" /\ Len(messageData) = 5
        => closed[c] \/ Len(Send[c]) < SendCap

\* A transport write that puts the newest message first.
CoalesceNewestFirst(queue, n) == [i \in 1..(n + 1) |-> queue[n + 2 - i]]

\* The frames of one transport write of writePump: the message received,
\* then the n queued messages in the order the channel yields them.
Coalesce(queue, n) == SubSeq(queue, 1, n + 1)

\* ------------------------------------------------------------ actions

\* Every operation: the process is up, and the behaviour has room for it.
Step ==
    /\ ~panicked
    /\ nops < MaxOps
    /\ nops' = nops + 1
    /\ UNCHANGED <<http, persisted>>

\* The record kept in last: the operation, its arguments, and the hub's state
\* as the operation found it.
Snapshot(op, c, raw, g, u) ==
    [op |-> op, c |-> c, raw |-> raw, g |-> g, u |-> u,
     clients |-> clients, Send |-> Send, closed |-> closed, groups |-> groups]

Init ==
    /\ clients = {}
    /\ groups = << >>
    /\ Send = [c \in Conns |-> << >>]
    /\ closed = [c \in Conns |-> FALSE]
    /\ panicked = FALSE
    /\ cstate = [c \in Conns |-> "none"]
    /\ wp = [c \in Conns |-> "none"]
    /\ http = Idle
    /\ persisted = {}
    /\ nframes = 0
    /\ nops = 0
    /\ last = Snapshot("init", NoConn, << >>, NilID, NilID)

\* Handler.HandleWebSocket: the connection is made, handed to the hub on the
\* register channel, and its pumps are started. a1 and a2 are interchangeable,
\* so a2 is taken to be the later of the two.
HandleWebSocket(c) ==
    /\ Step
    /\ cstate[c] = "none"
    /\ c = "a2" => cstate["a1"] # "none"
    /\ cstate' = [cstate EXCEPT ![c] = "open"]
    /\ wp' = [wp EXCEPT ![c] = "run"]
    /\ SetHub(HubRegister(HubState, c))
    /\ last' = Snapshot("register", c, << >>, NilID, NilID)
    /\ UNCHANGED <<groups, nframes>>

\* Client.readPump: one frame is read and handled.
ReadPump(c, messageData) ==
    /\ Step
    /\ cstate[c] = "open"
    /\ nframes < MaxFrames
    /\ CanDispatch(c, messageData)
    /\ nframes' = nframes + 1
    /\ SetHub(ReadDispatch(HubState, groups, c, messageData))
    /\ last' = Snapshot("read", c, messageData, NilID, NilID)
    /\ UNCHANGED <<groups, cstate, wp>>

\* Client.readPump returns on a read error: the deferred function hands the
\* client to the hub on the unregister channel.
ReadPumpExit(c) ==
    /\ Step
    /\ cstate[c] = "open"
    /\ cstate' = [cstate EXCEPT ![c] = "gone"]
    /\ SetHub(HubUnregister(HubState, c))
    /\ last' = Snapshot("unregister", c, << >>, NilID, NilID)
    /\ UNCHANGED <<groups, nframes, wp>>

\* Client.writePump: a message is received from the Send channel and written
\* with the n messages len(c.Send) counts behind it, each received in turn;
\* messages the hub enqueues after len is taken wait for the next write. last
\* keeps the frames of the transport write. Once the read pump has returned
\* the transport is closed, and the write pump returns at its next write.
WritePump(c, n) ==
    /\ Step
    /\ cstate[c] = "open"
    /\ wp[c] = "run"
    /\ Send[c] # << >>
    /\ n < Len(Send[c])
    /\ Send' = [Send EXCEPT ![c] = SubSeq(@, n + 2, Len(@))]
    /\ last' = Snapshot("write", c, Coalesce(Send[c], n), NilID, NilID)
    /\ UNCHANGED <<clients, groups, closed, panicked, cstate, nframes, wp>>

\* MessageService.MarkAsRead: the read receipt is handed to Hub.SendToUser.
MarkAsRead(receiverID, senderID) ==
    /\ Step
    /\ nframes < MaxFrames
    /\ nframes' = nframes + 1
    /\ LET readReceipt == NewMessage("message_read", receiverID, senderID, NilID, NilID)
       IN  /\ SetHub(SendToUser(HubState, senderID, readReceipt))
           /\ last' = Snapshot("markAsRead", NoConn, Marshal(readReceipt), NilID, NilID)
    /\ UNCHANGED <<groups, cstate, wp>>

\* A call of Hub.AddUserToGroup.
AddMember(g, u) ==
    /\ Step
    /\ groups' = AddUserToGroup(groups, g, u)
    /\ last' = Snapshot("addMember", NoConn, << >>, g, u)
    /\ UNCHANGED <<clients, Send, closed, panicked, cstate, nframes, wp>>

\* A call of Hub.RemoveUserFromGroup.
RemoveMember(g, u) ==
    /\ Step
    /\ groups' = RemoveUserFromGroup(groups, g, u)
    /\ last' = Snapshot("removeMember", NoConn, << >>, g, u)
    /\ UNCHANGED <<clients, Send, closed, panicked, cstate, nframes, wp>>

Next ==
    \/ \E c \in Conns : HandleWebSocket(c)
    \/ \E c \in Conns, f \in ClientFrames : ReadPump(c, f)
    \/ \E c \in Conns : ReadPumpExit(c)
    \/ \E c \in Conns, n \in 0..(SendCap - 1) : WritePump(c, n)
    \/ \E r \in Users, s \in Users : MarkAsRead(r, s)
    \/ \E g \in Groups, u \in Users : AddMember(g, u)
    \/ \E g \in Groups, u \in Users : RemoveMember(g, u)

Spec == Init /\ [][Next]_vars

\* ------------------------------------------------------------ goroutines
\*
\* The same program with the steps of its goroutines taken apart: a read pump
\* that fails and then waits for the hub to take its unregister, a read pump
\* blocked in the send of a pong, a write pump that returns, and the HTTP
\* goroutine of MarkAsRead between its read of Hub.clients and its send. The
\* hub's handling of one event stays one step: the loop runs it to its end.

\* The frames a client puts on its connection in these behaviours.
PumpFrames ==
    {<<t, NilID, NilID, NilID, NilID>> : t \in {"ping", "typing"}} \cup
    {<<"new_message", NilID, r, NilID, NilID>> : r \in Users}

\* The connections made in these behaviours: one of each user.
PumpConns == {"a1", "b1"}

\* c.Conn.Close() has run: a pump of the connection returned.
TransportClosed(c) == wp[c] \in {"failed", "done"} \/ cstate[c] = "gone"

\* Every step of a goroutine: the process is up.
Running ==
    /\ ~panicked
    /\ UNCHANGED <<groups, persisted, nops, last>>

\* Handler.HandleWebSocket: the client is handed to the hub on the register
\* channel, the hub handles it, and the pumps are started.
Accept(c) ==
    /\ Running
    /\ cstate[c] = "none"
    /\ c = "a2" => cstate["a1"] # "none"
    /\ cstate' = [cstate EXCEPT ![c] = "open"]
    /\ wp' = [wp EXCEPT ![c] = "run"]
    /\ SetHub(HubRegister(HubState, c))
    /\ UNCHANGED <<http, nframes>>

\* Client.readPump: ReadMessage returns a frame and the frame is handled. A
\* ping that finds the client's channel open and full leaves the pump blocked
\* in the send of the pong.
ReadMessage(c, messageData) ==
    /\ Running
    /\ cstate[c] = "open"
    /\ ~TransportClosed(c)
    /\ nframes < MaxFrames
    /\ nframes' = nframes + 1
    /\ IF FrameType(messageData) = "ping" /\ ~closed[c] /\ Len(Send[c]) >= SendCap
       THEN /\ cstate' = [cstate EXCEPT ![c] = "pong"]
            /\ UNCHANGED <<clients, Send, closed, panicked>>
       ELSE /\ SetHub(ReadDispatch(HubState, groups, c, messageData))
            /\ UNCHANGED cstate
    /\ UNCHANGED <<wp, http>>

\* Client.readPump, c.Send <- pongData, of a pump that was blocked in it: the
\* send completes once the buffer has room, and panics once the channel is
\* closed.
SendPong(c) ==
    /\ Running
    /\ cstate[c] = "pong"
    /\ closed[c] \/ Len(Send[c]) < SendCap
    /\ cstate' = [cstate EXCEPT ![c] = "open"]
    /\ SetHub(ReadDispatch(HubState, groups, c, <<"ping", NilID, NilID, NilID, NilID>>))
    /\ UNCHANGED <<wp, http, nframes>>

\* Client.readPump: ReadMessage fails on a transport that is still open (the
\* peer went away, the read deadline passed, the frame was over the limit);
\* the pump breaks out of its loop into the deferred function.
ReadError(c) ==
    /\ Running
    /\ cstate[c] = "open"
    /\ ~TransportClosed(c)
    /\ cstate' = [cstate EXCEPT ![c] = "unreg"]
    /\ UNCHANGED <<clients, Send, closed, panicked, wp, http, nframes>>

\* Client.readPump: ReadMessage fails because the write pump closed the
\* transport.
ReadClosed(c) ==
    /\ Running
    /\ cstate[c] = "open"
    /\ TransportClosed(c)
    /\ cstate' = [cstate EXCEPT ![c] = "unreg"]
    /\ UNCHANGED <<clients, Send, closed, panicked, wp, http, nframes>>

\* The deferred function of readPump: the hub takes the client from the
\* unregister channel and handles it; the pump closes the transport and
\* returns.
Unregister(c) ==
    /\ Running
    /\ cstate[c] = "unreg"
    /\ cstate' = [cstate EXCEPT ![c] = "gone"]
    /\ SetHub(HubUnregister(HubState, c))
    /\ UNCHANGED <<wp, http, nframes>>

\* Client.writePump: a message and the n messages behind it are received and
\* written to the transport.
WriteMessage(c, n) ==
    /\ Running
    /\ wp[c] = "run"
    /\ ~TransportClosed(c)
    /\ n < Len(Send[c])
    /\ Send' = [Send EXCEPT ![c] = SubSeq(@, n + 2, Len(@))]
    /\ UNCHANGED <<clients, closed, panicked, cstate, wp, http, nframes>>

\* Client.writePump: a message is received and NextWriter, Write or Close
\* fails (the write deadline passed, the transport is closed); the pump
\* returns and closes the transport.
WriteError(c) ==
    /\ Running
    /\ wp[c] = "run"
    /\ Send[c] # << >>
    /\ Send' = [Send EXCEPT ![c] = Tail(@)]
    /\ wp' = [wp EXCEPT ![c] = "failed"]
    /\ UNCHANGED <<clients, closed, panicked, cstate, http, nframes>>

\* Client.writePump, case <-ticker.C: the write of the ping fails; the pump
\* returns and closes the transport.
PingError(c) ==
    /\ Running
    /\ wp[c] = "run"
    /\ wp' = [wp EXCEPT ![c] = "failed"]
    /\ UNCHANGED <<clients, Send, closed, panicked, cstate, http, nframes>>

\* Client.writePump: the receive finds the channel closed and empty; the pump
\* writes a close message, returns and closes the transport.
WriteClosed(c) ==
    /\ Running
    /\ wp[c] = "run"
    /\ Send[c] = << >> /\ closed[c]
    /\ wp' = [wp EXCEPT ![c] = "done"]
    /\ UNCHANGED <<clients, Send, closed, panicked, cstate, http, nframes>>

\* The step a write pump takes of itself: a write, the return on the closed
\* channel, or the failure of a write on a closed transport.
WritePumpRuns(c) ==
    \/ \E n \in 0..(SendCap - 1) : WriteMessage(c, n)
    \/ WriteClosed(c)
    \/ TransportClosed(c) /\ (WriteError(c) \/ PingError(c))

\* MessageService.MarkAsRead in an HTTP goroutine, Hub.SendToUser up to
\* client, ok := h.clients[userID]: the client found is kept for the send.
SendToUserLookup(receiverID, senderID) ==
    /\ Running
    /\ http = Idle
    /\ nframes < MaxFrames
    /\ Has(clients, senderID)
    /\ nframes' = nframes + 1
    /\ http' = [client |-> Lookup(clients, senderID), pc |-> "send",
                data |-> Marshal(NewMessage("message_read", receiverID, senderID,
                                            NilID, NilID))]
    /\ UNCHANGED <<clients, Send, closed, panicked, cstate, wp>>

\* Hub.SendToUser in the HTTP goroutine, the select on client.Send, on the
\* client read before: the send, or in the default branch close(client.Send),
\* with the delete still to come.
SendToUserSend ==
    /\ Running
    /\ http # Idle /\ http.pc = "send"
    /\ IF ~closed[http.client] /\ Len(Send[http.client]) >= SendCap
       THEN /\ SetHub(CloseSend(HubState, http.client))
            /\ http' = [http EXCEPT !.pc = "delete"]
       ELSE /\ SetHub(Enqueue(HubState, http.client, http.data))
            /\ http' = Idle
    /\ UNCHANGED <<cstate, wp, nframes>>

\* Hub.SendToUser in the HTTP goroutine, default branch after the close:
\* delete(h.clients, userID).
SendToUserDelete ==
    /\ Running
    /\ http # Idle /\ http.pc = "delete"
    /\ clients' = MapDelete(clients, UserOf(http.client))
    /\ http' = Idle
    /\ UNCHANGED <<Send, closed, panicked, cstate, wp, nframes>>

PumpNext ==
    \/ \E c \in PumpConns : Accept(c)
    \/ \E c \in PumpConns, f \in PumpFrames : ReadMessage(c, f)
    \/ \E c \in PumpConns : SendPong(c)
    \/ \E c \in PumpConns : ReadError(c)
    \/ \E c \in PumpConns : ReadClosed(c)
    \/ \E c \in PumpConns : Unregister(c)
    \/ \E c \in PumpConns, n \in 0..(SendCap - 1) : WriteMessage(c, n)
    \/ \E c \in PumpConns : WriteError(c)
    \/ \E c \in PumpConns : PingError(c)
    \/ \E c \in PumpConns : WriteClosed(c)
    \/ \E r, s \in Users : SendToUserLookup(r, s)
    \/ SendToUserSend
    \/ SendToUserDelete

\* The scheduler runs every goroutine that can take a step: the hub takes a
\* pending unregister, a pump blocked in a send goes on once the send can
\* complete, a read on a closed transport fails, a write pump writes or
\* returns, and the HTTP goroutine finishes its call.
FairSpec ==
    /\ Init /\ [][PumpNext]_vars
    /\ \A c \in PumpConns :
          /\ WF_vars(Unregister(c))
          /\ WF_vars(SendPong(c))
          /\ WF_vars(ReadClosed(c))
          /\ WF_vars(WritePumpRuns(c))
    /\ WF_vars(SendToUserSend)
    /\ WF_vars(SendToUserDelete)

\* ------------------------------------------------------------ group service
\*
\* The program as main wires it: the hub, the connections, and the group
\* service, which is built without the hub.

\* GroupRepository.IsAdmin
IsAdmin(rows, groupID, userID) == <<groupID, userID, "admin">> \in rows

\* The users with a group_members row for the group.
PersistedMembers(rows, groupID) ==
    {row[2] : row \in {x \in rows : x[1] = groupID /\ x[3] # "group"}}

\* A request to the group service: the process is up, the behaviour has room
\* for it, and neither the hub nor a connection is touched.
ServiceCall ==
    /\ ~panicked
    /\ nops < MaxOps
    /\ nops' = nops + 1
    /\ UNCHANGED <<clients, groups, Send, closed, panicked, cstate, wp, http, nframes>>

\* GroupService.CreateGroup: the group row, the creator as admin, and a
\* member row for every other requested member.
GroupServiceCreateGroup(g, creatorID, memberIDs) ==
    /\ ServiceCall
    /\ <<g, NilID, "group">> \notin persisted
    /\ persisted' = persisted \cup {<<g, NilID, "group">>, <<g, creatorID, "admin">>}
                        \cup {<<g, m, "member">> : m \in memberIDs \ {creatorID}}
    /\ last' = Snapshot("createGroup", NoConn, << >>, g, creatorID)

\* GroupService.AddMember: refused unless the requester is an admin.
GroupServiceAddMember(g, userID, newMemberID) ==
    /\ ServiceCall
    /\ persisted' = IF IsAdmin(persisted, g, userID)
                    THEN persisted \cup {<<g, newMemberID, "member">>}
                    ELSE persisted
    /\ last' = Snapshot("groupAddMember", NoConn, << >>, g, newMemberID)

\* GroupService.RemoveMember: refused unless the requester is an admin.
GroupServiceRemoveMember(g, userID, memberID) ==
    /\ ServiceCall
    /\ persisted' = IF IsAdmin(persisted, g, userID)
                    THEN {row \in persisted : ~(row[1] = g /\ row[2] = memberID)}
                    ELSE persisted
    /\ last' = Snapshot("groupRemoveMember", NoConn, << >>, g, memberID)

GroupNext ==
    \/ \E c \in Conns : HandleWebSocket(c)
    \/ \E c \in Conns, f \in ClientFrames : ReadPump(c, f)
    \/ \E g \in Groups, u \in Users, ms \in SUBSET Users : GroupServiceCreateGroup(g, u, ms)
    \/ \E g \in Groups, u, m \in Users : GroupServiceAddMember(g, u, m)
    \/ \E g \in Groups, u, m \in Users : GroupServiceRemoveMember(g, u, m)

GroupSpec == Init /\ [][GroupNext]_vars

\* ------------------------------------------------------------ properties

\* The entries of the map m under key.
EntriesOf(m, key) == {e \in m : e[1] = key}

\* c is the connection the registry held for its user when the last
\* operation started.
WasRegistered(c) == <<UserOf(c), c>> \in last.clients

\* The queue of c had room when the last operation started.
HadRoom(c) == Len(last.Send[c]) < SendCap

\* The last operation enqueued exactly the frame data on c / nothing on c.
GotOne(c, data) == Send[c] = Append(last.Send[c], data)
GotNone(c) == Send[c] = last.Send[c]

\* The members a cache lists for a group.
MembersOf(grps, g) ==
    IF g \in DOMAIN grps THEN {grps[g][i] : i \in 1..Len(grps[g])} ELSE {}

\* The last operation was a client frame of one of the given types.
ReadOf(types) ==
    last.op = "read" /\ Len(last.raw) = 5 /\ FrameType(last.raw) \in types

\* The frame the hub is expected to route for the last client frame: the
\* client's, with the connection's user as its sender.
Stamped ==
    <<last.raw[1], UserOf(last.c), last.raw[3], last.raw[4], last.raw[5]>>

\* The last operation routed a direct message: a client's new_message or
\* message_read frame, or the receipt of MarkAsRead.
IsDirectOp == ReadOf({"new_message", "message_read"}) \/ last.op = "markAsRead"
DirectFrame == IF last.op = "read" THEN Stamped ELSE last.raw
DirectReceiver == DirectFrame[3]

\* The last operation routed a group message for a group.
IsGroupOp == ReadOf({"new_group_message"}) /\ last.raw[4] # NilID
GroupOfOp == last.raw[4]

\* C1: after any sequence of register, unregister and eviction events the
\* registry holds at most one connection per user ID.
C1_OneConnectionPerUser ==
    \A u \in Users : Cardinality(EntriesOf(clients, u)) <= 1

\* C1 witness: a user registered a second connection while the first was
\* still the registry's entry.
C1_Witness ==
    /\ last.op = "register"
    /\ \E c1 \in Conns \ {last.c} : WasRegistered(c1) /\ UserOf(c1) = UserOf(last.c)
    /\ <<UserOf(last.c), last.c>> \in clients

\* C2 (as claimed): when a connection is registered for a user whose earlier
\* connection is the registry's entry, the registry afterwards holds exactly
\* the new connection for the user and the earlier connection's queue is closed.
C2_ReconnectClosesOld ==
    \A c1 \in Conns \ {last.c} :
        (last.op = "register" /\ WasRegistered(c1) /\ UserOf(c1) = UserOf(last.c))
            => /\ EntriesOf(clients, UserOf(c1)) = {<<UserOf(c1), last.c>>}
               /\ closed[c1]

\* C3 (as claimed): the unregister of a connection whose queue was closed
\* before (it was evicted) removes no entry, closes no queue and broadcasts
\* nothing; the unregister of the registered connection removes its entry,
\* closes its queue once and enqueues one user_left on every connection that
\* stays registered.
C3_UnregisterOfRemovedIsNoOp ==
    last.op = "unregister" =>
        LET leftFrame == <<"user_left", NilID, NilID, NilID,
                           <<UserOf(last.c), Username(last.c)>> >>
        IN  /\ last.closed[last.c] =>
                /\ clients = last.clients
                /\ closed = last.closed
                /\ Send = last.Send
                /\ ~panicked
            /\ WasRegistered(last.c) =>
                /\ ~Has(clients, UserOf(last.c))
                /\ closed[last.c] /\ ~last.closed[last.c] /\ ~panicked
                /\ \A c \in Conns \ {last.c} :
                      IF WasRegistered(c) /\ HadRoom(c)
                      THEN GotOne(c, leftFrame) ELSE GotNone(c)

\* C4: a direct message for a registered receiver whose queue has room puts
\* exactly one frame on the receiver's connection and none on any other.
C4_DirectToOnline ==
    \A rc \in Conns :
        (IsDirectOp /\ DirectReceiver = UserOf(rc) /\ WasRegistered(rc) /\ HadRoom(rc))
            => /\ GotOne(rc, DirectFrame)
               /\ \A c \in Conns \ {rc} : GotNone(c)
               /\ clients = last.clients /\ closed = last.closed /\ ~panicked

\* C4 witness: a registered sender's direct message reached another user's
\* registered connection.
C4_Witness ==
    /\ ReadOf({"new_message"}) /\ WasRegistered(last.c)
    /\ \E rc \in Conns :
          /\ UserOf(rc) = DirectReceiver /\ UserOf(rc) # UserOf(last.c)
          /\ WasRegistered(rc) /\ HadRoom(rc) /\ GotOne(rc, DirectFrame)

\* C5: a direct message for a receiver without a registry entry enqueues
\* nothing, raises nothing and leaves clients and groups as they were.
C5_DirectToOffline ==
    (IsDirectOp /\ ~Has(last.clients, DirectReceiver))
        => /\ Send = last.Send
           /\ clients = last.clients /\ groups = last.groups
           /\ closed = last.closed /\ ~panicked

\* C5 witness: a direct message was routed for a user who is not connected
\* while another user is.
C5_Witness ==
    /\ IsDirectOp /\ DirectReceiver \in Users
    /\ ~Has(last.clients, DirectReceiver)
    /\ last.clients # {}

\* C6 (as claimed): a group message puts exactly one frame on the connection
\* of every cached member that is registered, and none on any other connection.
C6_GroupToRegisteredMembers ==
    IsGroupOp =>
        \A c \in Conns :
            IF WasRegistered(c) /\ UserOf(c) \in MembersOf(last.groups, GroupOfOp)
            THEN GotOne(c, Stamped) ELSE GotNone(c)

\* C6 (amended): a group message puts exactly one frame on the connection of
\* every cached member that is registered and has room in its queue, and none
\* on any other connection (a registered member whose queue is full, members
\* that are not registered, connections of non-members; nothing at all when
\* the cache has no entry for the group).
C6_GroupToMembersWithRoom ==
    IsGroupOp =>
        \A c \in Conns :
            IF /\ WasRegistered(c) /\ HadRoom(c)
               /\ UserOf(c) \in MembersOf(last.groups, GroupOfOp)
            THEN GotOne(c, Stamped) ELSE GotNone(c)

\* C6 witness: a group message reached a registered member while a
\* non-member was registered too.
C6_Witness ==
    /\ IsGroupOp
    /\ \E c \in Conns :
          /\ WasRegistered(c) /\ HadRoom(c)
          /\ UserOf(c) \in MembersOf(last.groups, GroupOfOp)
          /\ GotOne(c, Stamped)
    /\ \E c \in Conns :
          WasRegistered(c) /\ UserOf(c) \notin MembersOf(last.groups, GroupOfOp)

\* The sender of the last group message is a cached member of the group and
\* its connection is the registered one.
SenderIsOnlineMember ==
    /\ IsGroupOp /\ WasRegistered(last.c)
    /\ UserOf(last.c) \in MembersOf(last.groups, GroupOfOp)

\* The other connections of registered members with room got the frame.
OtherMembersGotOne ==
    \A c \in Conns \ {last.c} :
        (/\ WasRegistered(c) /\ HadRoom(c)
         /\ UserOf(c) \in MembersOf(last.groups, GroupOfOp)) => GotOne(c, Stamped)

\* C7 (as claimed): the group message of a connected member is not delivered
\* back to the sender's own connection, while the other online members get it.
C7_NoSenderEcho ==
    SenderIsOnlineMember => GotNone(last.c) /\ OtherMembersGotOne

\* C7 (amended): the group message of a connected member is delivered to the
\* sender's own connection as to every other online member: with room in its
\* queue the sender's connection receives exactly one frame for it.
C7_SenderEcho ==
    (SenderIsOnlineMember /\ HadRoom(last.c))
        => GotOne(last.c, Stamped) /\ OtherMembersGotOne

\* C7 witness: the sender and another online member both received the
\* sender's group message.
C7_Witness ==
    /\ SenderIsOnlineMember /\ HadRoom(last.c) /\ GotOne(last.c, Stamped)
    /\ \E c \in Conns \ {last.c} :
          /\ WasRegistered(c) /\ HadRoom(c)
          /\ UserOf(c) \in MembersOf(last.groups, GroupOfOp)
          /\ GotOne(c, Stamped)

\* C8 (as claimed): every frame enqueued for a client frame of a routed type
\* read on connection C carries C's user ID as its sender.
C8_SenderIsAuthenticatedUser ==
    ReadOf({"new_message", "message_read", "new_group_message", "typing"}) =>
        \A c \in Conns :
            \A i \in 1..Len(Send[c]) :
                i > Len(last.Send[c]) => FrameSender(Send[c][i]) = UserOf(last.c)

\* C9 (as claimed): AddMember followed at once by RemoveMember of the same
\* pair gives back the cache AddMember started from.
C9_AddRemoveRestores ==
    last.op = "addMember" => RemoveUserFromGroup(groups, last.g, last.u) = last.groups

\* C9 (amended): AddMember followed at once by RemoveMember of the same pair
\* gives back the cache AddMember started from when the user was not listed
\* for the group before (the group having an entry or not).
C9_AddRemoveRestoresNonMember ==
    (last.op = "addMember" /\ last.u \notin MembersOf(last.groups, last.g))
        => RemoveUserFromGroup(groups, last.g, last.u) = last.groups

\* C9 witness: a user was added to a group that listed another member.
C9_Witness ==
    /\ last.op = "addMember"
    /\ last.g \in DOMAIN last.groups
    /\ last.u \notin MembersOf(last.groups, last.g)
    /\ groups[last.g] = Append(last.groups[last.g], last.u)

\* C10: adding a listed member and removing an unlisted one leave the cache
\* as it was, and a second identical call changes nothing after the first.
C10_MembershipIdempotent ==
    /\ (last.op = "addMember" /\ last.u \in MembersOf(last.groups, last.g))
           => groups = last.groups
    /\ (last.op = "removeMember" /\ last.u \notin MembersOf(last.groups, last.g))
           => groups = last.groups
    /\ last.op = "addMember" => AddUserToGroup(groups, last.g, last.u) = groups
    /\ last.op = "removeMember" => RemoveUserFromGroup(groups, last.g, last.u) = groups

\* C10 witness: a member already listed next to another was added again.
C10_Witness ==
    /\ last.op = "addMember"
    /\ last.u \in MembersOf(last.groups, last.g)
    /\ Len(last.groups[last.g]) > 1

\* The pong frame readPump builds for a ping.
PongFrame == <<"pong", NilID, NilID, NilID, NilID>>

\* C11 (as claimed): a ping read on a connection puts exactly one pong on that
\* connection's own queue and nothing on any other; the registry, the other
\* queues and the process are left as they were.
C11_PingGetsOnePong ==
    ReadOf({"ping"}) =>
        /\ GotOne(last.c, PongFrame)
        /\ \A c \in Conns \ {last.c} : GotNone(c)
        /\ clients = last.clients /\ closed = last.closed
        /\ ~panicked

\* The frame the hub routed in the last operation.
RoutedFrame ==
    CASE IsDirectOp -> DirectFrame
      [] IsGroupOp -> Stamped
      [] last.op = "register" ->
            <<"user_joined", NilID, NilID, NilID, <<UserOf(last.c), Username(last.c)>> >>
      [] last.op = "unregister" ->
            <<"user_left", NilID, NilID, NilID, <<UserOf(last.c), Username(last.c)>> >>
      [] OTHER -> last.raw

\* c is a connection the hub tried to enqueue the routed frame on in the last
\* operation: the receiver's, a cached member's, or for a broadcast every
\* entry of the registry.
Target(c) ==
    \/ IsDirectOp /\ DirectReceiver = UserOf(c) /\ WasRegistered(c)
    \/ IsGroupOp /\ WasRegistered(c) /\ UserOf(c) \in MembersOf(last.groups, GroupOfOp)
    \/ ReadOf({"typing"}) /\ WasRegistered(c)
    \/ last.op = "register"
          /\ (c = last.c \/ (WasRegistered(c) /\ UserOf(c) # UserOf(last.c)))
    \/ last.op = "unregister"
          /\ Has(last.clients, UserOf(last.c)) /\ ~last.closed[last.c]
          /\ WasRegistered(c) /\ UserOf(c) # UserOf(last.c)

\* The last operation evicted c: it closed the queue, enqueued nothing on it
\* and removed the entry.
Evicted(c) ==
    /\ closed[c] /\ ~last.closed[c]
    /\ GotNone(c)
    /\ <<UserOf(c), c>> \notin clients

\* C12: when the hub tries to enqueue a direct, group or broadcast frame on a
\* registered connection whose queue is full, the operation completes with
\* that queue closed and that entry removed, and every other connection the
\* frame was meant for that has room receives exactly one copy and stays
\* registered.
C12_FullQueueEvicted ==
    \A c \in Conns :
        Target(c) =>
            /\ ~panicked
            /\ IF HadRoom(c)
               THEN /\ GotOne(c, RoutedFrame)
                    /\ ~closed[c]
                    /\ <<UserOf(c), c>> \in clients
               ELSE Evicted(c)

\* C12 witness: one frame found one recipient's queue full and evicted it, and
\* was enqueued on another recipient.
C12_Witness ==
    \E c1, c2 \in Conns :
        /\ Target(c1) /\ ~HadRoom(c1) /\ Evicted(c1)
        /\ c2 # c1 /\ Target(c2) /\ HadRoom(c2) /\ GotOne(c2, RoutedFrame)

\* C18: a register leaves the connection as the entry of its user and
\* enqueues one user_joined with the user's ID and display name on every
\* connection the registry then holds that has room; the unregister of the
\* registered connection enqueues one user_left on every connection that is
\* registered afterwards.
C18_PresenceEvents ==
    /\ last.op = "register" =>
          /\ ~panicked
          /\ EntriesOf(clients, UserOf(last.c)) = {<<UserOf(last.c), last.c>>}
          /\ \A c \in Conns :
                (/\ c = last.c \/ (WasRegistered(c) /\ UserOf(c) # UserOf(last.c))
                 /\ HadRoom(c))
                    => GotOne(c, <<"user_joined", NilID, NilID, NilID,
                                   <<UserOf(last.c), Username(last.c)>> >>)
    /\ (last.op = "unregister" /\ WasRegistered(last.c)) =>
          /\ ~panicked
          /\ \A c \in Conns :
                <<UserOf(c), c>> \in clients
                    => GotOne(c, <<"user_left", NilID, NilID, NilID,
                                   <<UserOf(last.c), Username(last.c)>> >>)

\* C18 witness: a register was announced to the new connection and to a
\* connection of another user.
C18_Witness ==
    /\ last.op = "register"
    /\ Send[last.c] = << <<"user_joined", NilID, NilID, NilID,
                           <<UserOf(last.c), Username(last.c)>> >> >>
    /\ \E c \in Conns \ {last.c} :
          /\ WasRegistered(c) /\ HadRoom(c)
          /\ Send[c] # last.Send[c]

\* The types readPump has a case for.
KnownTypes == {"new_message", "new_group_message", "message_read", "typing", "ping"}

\* The last operation was a client frame that does not decode or has a type
\* readPump has no case for.
ReadOfUnusable ==
    /\ last.op = "read"
    /\ Len(last.raw) # 5 \/ FrameType(last.raw) \notin KnownTypes

\* C19: a client frame that does not decode or has an unrecognized type is
\* dropped: nothing is enqueued, no queue is closed, the registry and the
\* group cache are unchanged, and the connection's read pump goes on.
C19_UnusableFrameDropped ==
    ReadOfUnusable =>
        /\ Send = last.Send
        /\ closed = last.closed
        /\ clients = last.clients
        /\ groups = last.groups
        /\ cstate[last.c] = "open"
        /\ ~panicked

\* C19 witness: a registered connection sent bytes that do not decode while
\* another connection was registered.
C19_Witness ==
    /\ ReadOfUnusable /\ Len(last.raw) # 5
    /\ WasRegistered(last.c)
    /\ \E c \in Conns \ {last.c} : WasRegistered(c)

\* What the client of connection c can observe of it: its queue, whether the
\* queue is closed, whether it is the registry's entry, and its read pump.
SenderView(snd, cls, reg, c) ==
    <<snd[c], cls[c], <<UserOf(c), c>> \in reg, cstate[c]>>

\* The last operation routed a client's direct or group message to the
\* sender's own connection among others: the sender wrote to itself, or is a
\* connected member of the addressed group.
SenderIsRecipient ==
    \/ ReadOf({"new_message", "message_read"})
          /\ DirectReceiver = UserOf(last.c) /\ WasRegistered(last.c)
    \/ SenderIsOnlineMember

\* C20: once a client's direct or group message is routed, the sender's queue
\* and connection state are those it had before, or, where the sender's own
\* connection is a recipient, its own delivery or eviction by its own queue:
\* in no case do they depend on whether another recipient is registered,
\* absent or full.
C20_SenderSeesNoRecipientState ==
    ReadOf({"new_message", "message_read", "new_group_message"}) =>
        /\ ~panicked
        /\ IF ~SenderIsRecipient
           THEN SenderView(Send, closed, clients, last.c)
                    = SenderView(last.Send, last.closed, last.clients, last.c)
           ELSE IF HadRoom(last.c)
                THEN SenderView(Send, closed, clients, last.c)
                        = SenderView([last.Send EXCEPT ![last.c] = Append(@, Stamped)],
                                     last.closed, last.clients, last.c)
                ELSE Evicted(last.c)

\* C20 witness: a direct message evicted the receiver, whose queue was full,
\* and the sender's connection, open and registered, was left as it was.
C20_Witness ==
    /\ ReadOf({"new_message"}) /\ WasRegistered(last.c) /\ ~last.closed[last.c]
    /\ \E rc \in Conns \ {last.c} :
          /\ DirectReceiver = UserOf(rc) /\ WasRegistered(rc)
          /\ ~HadRoom(rc) /\ Evicted(rc)
    /\ Send[last.c] = last.Send[last.c]

\* q1 is a prefix of q2.
IsPrefix(q1, q2) == Len(q1) <= Len(q2) /\ q1 = SubSeq(q2, 1, Len(q1))

\* C14: every transport write of a write pump carries the frames at the head
\* of the connection's queue, in queue order, and leaves the rest queued in
\* order, whether it takes one frame or several and whether the queue is
\* open or closed; every other operation leaves what is queued in place and
\* adds frames only behind it.
C14_WrittenInQueueOrder ==
    /\ last.op = "write" =>
          /\ last.raw # << >>
          /\ last.raw \o Send[last.c] = last.Send[last.c]
          /\ \A c \in Conns \ {last.c} : GotNone(c)
    /\ last.op # "write" => \A c \in Conns : IsPrefix(last.Send[c], Send[c])

\* C14 witness: a write pump wrote two different buffered frames in one
\* transport write after the hub had closed the queue.
C14_Witness ==
    /\ last.op = "write" /\ last.closed[last.c]
    /\ Len(last.raw) = 2 /\ last.raw[1] # last.raw[2]

\* c is the connection the registry holds for its user.
Registered(c) == <<UserOf(c), c>> \in clients

\* The hub's loop handles a register or an unregister event.
HubHandlesEvent == \E c \in Conns : Accept(c) \/ Unregister(c)

\* C13 (as claimed): the hub's loop handles an event only while no other
\* goroutine is inside a method that reads or writes Hub.clients or closes a
\* client's channel.
C13_OnlyHubLoopTouchesMaps == [][HubHandlesEvent => http = Idle]_vars

C16_WriteFailureUnregisters ==
    \A c \in Conns :
        (wp[c] = "failed" /\ Registered(c)) ~> (~Registered(c) /\ closed[c])

\* C17 (as claimed): once the queue of a connection is closed, its write pump
\* drains it and returns, closing the transport, and its read pump returns:
\* both pumps end.
C17_PumpsEndOnceClosed ==
    \A c \in Conns :
        closed[c] ~> (/\ wp[c] \in {"failed", "done"}
                      /\ Send[c] = << >> \/ wp[c] = "failed"
                      /\ cstate[c] = "gone")

\* The last operation was a client frame readPump hands to the hub.
RoutingRead ==
    ReadOf({"new_message", "message_read", "new_group_message", "typing"})

\* C21: the hub handles the frames a read pump hands it one at a time, in the
\* order handed: a frame routed to a recipient is put behind everything the
\* recipient's queue held when it arrived, so behind every frame the same
\* connection had routed to that recipient before.
C21_RoutedInArrivalOrder ==
    RoutingRead =>
        \A c \in Conns :
            Send[c] # last.Send[c] => Send[c] = Append(last.Send[c], RoutedFrame)

\* C21 witness: connection a1, the only one of its user, routed a direct
\* message m1 and then a frame m2 of another type to one recipient, whose
\* queue holds m1 followed by m2.
C21_Witness ==
    /\ RoutingRead /\ last.c = "a1" /\ cstate["a2"] = "none"
    /\ FrameType(RoutedFrame) # "new_message"
    /\ \E c \in Conns \ {"a1"} :
          /\ last.Send[c] # << >>
          /\ FrameType(last.Send[c][Len(last.Send[c])]) = "new_message"
          /\ FrameSender(last.Send[c][Len(last.Send[c])]) = "A"
          /\ Send[c] = Append(last.Send[c], RoutedFrame)

\* C23 (as claimed): no queue is closed twice; the unregister of a connection
\* whose queue was closed before does not run close on it again (a second
\* close of a Go channel panics).
C23_QueueClosedAtMostOnce ==
    (last.op = "unregister" /\ last.closed[last.c]) => ~panicked /\ closed = last.closed

\* C24 (as claimed): no goroutine sends on a queue that is closed: not the
\* hub on a connection it routes to, not a read pump answering a ping on its
\* own queue.
C24_NoSendOnClosedQueue ==
    /\ \A c \in Conns : Target(c) => ~last.closed[c]
    /\ ReadOf({"ping"}) => ~last.closed[last.c]

\* C25 (as claimed): the unregister of a connection leaves the entry of
\* another connection of the same user in the registry.
C25_UnregisterKeepsSuccessor ==
    last.op = "unregister" =>
        \A c2 \in Conns \ {last.c} :
            (WasRegistered(c2) /\ UserOf(c2) = UserOf(last.c))
                => <<UserOf(c2), c2>> \in clients

\* The frames the last operation put on the queue of c.
NewFrames(c) ==
    IF IsPrefix(last.Send[c], Send[c])
    THEN {Send[c][i] : i \in (Len(last.Send[c]) + 1)..Len(Send[c])}
    ELSE {}

\* C27 (as claimed): an operation that takes a user's entry out of the
\* registry, an unregister or an eviction, puts a user_left frame for that
\* user on every connection that is registered afterwards.
C27_RemovalAnnounced ==
    \A u \in Users :
        (Has(last.clients, u) /\ ~Has(clients, u) /\ ~panicked) =>
            \A c \in Conns :
                <<UserOf(c), c>> \in clients =>
                    \E f \in NewFrames(c) :
                        FrameType(f) = "user_left" /\ FrameData(f)[1] = u

\* C29: no group of the cache has an empty member list, no list names a user
\* twice, and a group message puts at most one frame on a connection.
C29_GroupListsWellFormed ==
    /\ \A g \in DOMAIN groups :
          /\ groups[g] # << >>
          /\ \A i, j \in 1..Len(groups[g]) : groups[g][i] = groups[g][j] => i = j
    /\ IsGroupOp => \A c \in Conns : Len(Send[c]) <= Len(last.Send[c]) + 1

\* C29 witness: the only member of a group was removed and the group's entry
\* went with it.
C29_Witness ==
    /\ last.op = "removeMember"
    /\ last.g \in DOMAIN last.groups
    /\ last.groups[last.g] = <<last.u>>
    /\ last.g \notin DOMAIN groups

\* C30 (as claimed): a connection whose queue is open and whose pumps run is
\* the registry's entry of its user.
C30_NoOrphanedConnection ==
    \A c \in Conns :
        (cstate[c] = "open" /\ wp[c] = "run" /\ ~closed[c])
            => <<UserOf(c), c>> \in clients

\* C26 (as claimed): in every state every connection with an entry in the
\* registry has an open queue.
C26_RegisteredQueuesOpen ==
    \A c \in Conns : Registered(c) => ~closed[c]

\* C28 (as claimed): a read pump that is answering a ping does not stay in
\* the send of the pong for ever: it goes on reading or leaves its loop.
C28_PongSendEnds ==
    \A c \in Conns : cstate[c] = "pong" ~> cstate[c] # "pong"

\* C22 (as claimed): the hub's cache lists for every group exactly the users
\* with a persisted membership row.
C22_CacheMatchesPersisted ==
    \A g \in Groups : MembersOf(groups, g) = PersistedMembers(persisted, g)

====
